---- MODULE Spec2Model ----
(***************************************************************************)
(* State machine of the SpoonSoundApp class: the shake detector            *)
(* (handleMotion, detectVigorousShake), the trigger gate (triggerSound),   *)
(* the renderer (playSpoonSound and the voice constructors) and the        *)
(* start/stop life cycle.                                                  *)
(*                                                                         *)
(* Two builds of the class are modelled, selected by the variable build:   *)
(*   "script"   the first class of src/script.js (lines 2-1540)            *)
(*   "part000"  the class of src/unnamed/part_000                          *)
(*                                                                         *)
(* Units.  Date.now() times are integer milliseconds.  The audio clock     *)
(* (audioContext.currentTime, seconds as a float in the source) is kept    *)
(* in integer microseconds.  Math.random() returns r/100 for a draw r in   *)
(* 0..99.  Acceleration samples are integer vectors, so every comparison   *)
(* against motionThreshold * 0.6 / 0.7 / 1.2 / 1.5 is made exactly on      *)
(* both sides multiplied by 10.                                            *)
(*                                                                         *)
(* One handler invocation is one action: the three Date.now() reads made   *)
(* inside one synchronous handler run (handleMotion, triggerSound,         *)
(* getRhythmContext) return the same value; time passes between handlers.  *)
(***************************************************************************)
EXTENDS Integers, Sequences, FiniteSets, TLC

\* ------------------------------------------------------------- constants
motionThreshold == 8
soundCooldown == 100
motionCooldown == 150
historyWindowMs == 500
recentWindowMs == 200
fastRhythmMs == 300
cleanupSlackUs == 2000000

\* --------------------------------------------------------------- bounds
\* Date.now() at construction: any value further from the zero-initialised
\* lastSoundTime/lastMotionTime than every window of the program.
Epoch == 1000
\* Exploration stops advancing the clock past Epoch + MaxElapsed.
MaxElapsed == 200
\* Cap on the length of shakeHistory (samples inside one 500 ms window).
MaxHist == 2
\* Cap on the length of audioInstances (the program never shrinks it).
MaxInstances == 6
\* Cap on registered devicemotion listeners (start/stop cycles).
MaxListeners == 2
\* Horizons of the coarse-clock explorations (SpecWindow, SpecIdle).
WindowElapsed == 500
IdleElapsed == 2500
\* Samples and horizon of the three-sample scenario (SpecScenario).
ScenarioSamples == 3
ScenarioElapsed == 90
\* Samples of the gentle-shaking exploration (SpecSustained).
SustainedSamples == 5

NULL == <<>>

Builds == {"script", "part000"}

\* Acceleration vectors delivered by the sensor.  Pairwise L1 distances:
\* 0, 3, 5, 6, 8, 9, 10, 12, 14.
Samples == { <<0, 0, 0>>, <<4, 4, 4>>, <<4, -1, -1>>, <<10, 0, 0>>, <<5, 0, 0>> }

\* devicemotion events: acceleration present, only accelerationIncludingGravity
\* present, or neither.
MotionEvents ==
    { [acceleration |-> a, accelerationIncludingGravity |-> NULL] : a \in Samples }
    \cup { [acceleration |-> NULL, accelerationIncludingGravity |-> <<4, 4, 4>>],
           [acceleration |-> NULL, accelerationIncludingGravity |-> NULL] }

\* Milliseconds that may pass between two handler invocations.
TickSteps == {50, 100}

\* One tempo per pattern of the slider: sparse, sustained, normal,
\* syncopated, arpeggiated (tenths).
PatternTempos == {5, 8, 10, 16, 21}

\* Materials offered by the sound buttons and tempo slider positions (tenths).
Sounds == {"wooden-spoon", "metal-spoon"}
Tempos == {10, 21}

\* Math.random() draws (hundredths).
Rand == {0, 99}

VARIABLES
    build,            \* which class is running
    now,              \* Date.now()
    currentTime,      \* audioContext.currentTime (microseconds)
    isListening,
    audioContext,     \* "none" (null/undefined), "suspended", "running"
    listeners,        \* registered devicemotion listeners
    awaiting,         \* startMotionDetection calls suspended at an await
    event,            \* devicemotion event being dispatched
    pendingCalls,     \* listeners still to be called for event
    lastSoundTime,
    lastMotionTime,
    lastAcceleration,
    shakeHistory,
    audioInstances,
    currentSound,
    tempo,
    effectsChain,     \* "unset", "bound" (to the live context), "stale"
    lastHit,          \* arguments of the last render call
    threw             \* the last handler ended with an uncaught exception

vars == << build, now, currentTime, isListening, audioContext, listeners,
           awaiting, event, pendingCalls, lastSoundTime,
           lastMotionTime, lastAcceleration, shakeHistory, audioInstances,
           currentSound, tempo, effectsChain, lastHit, threw >>

\* ------------------------------------------------------------ helpers
Abs(x) == IF x < 0 THEN -x ELSE x
Max(a, b) == IF a > b THEN a ELSE b
Min(a, b) == IF a < b THEN a ELSE b

RECURSIVE SumIntensity(_)
SumIntensity(s) ==
    IF s = <<>> THEN 0 ELSE s[1].intensity + SumIntensity(Tail(s))

NoHit == [intensity |-> "none", isFastRhythm |-> FALSE, cfg |-> "none"]

\* ------------------------------------------------------- motion gate
\* Variant of Acceleration that reads a missing sample as the zero vector.
Acceleration_zero(ev) ==
    IF ev.acceleration # NULL THEN ev.acceleration
    ELSE IF ev.accelerationIncludingGravity # NULL THEN ev.accelerationIncludingGravity
    ELSE <<0, 0, 0>>

\* event.acceleration || event.accelerationIncludingGravity
Acceleration(ev) ==
    IF ev.acceleration # NULL THEN ev.acceleration
    ELSE ev.accelerationIncludingGravity

\* deltaX + deltaY + deltaZ
TotalDelta(a, last) ==
    Abs(a[1] - last[1]) + Abs(a[2] - last[2]) + Abs(a[3] - last[3])

\* Variant of HistoryKeep that keeps an entry aged exactly 500 ms.
HistoryKeep_inclusive(h, t) == t - h.timestamp <= historyWindowMs

\* filter(h => now - h.timestamp < 500)
HistoryKeep(h, t) == t - h.timestamp < historyWindowMs

\* push then filter
PushHistory(hist, d, t) ==
    SelectSeq(Append(hist, [intensity |-> d, timestamp |-> t]),
              LAMBDA h : HistoryKeep(h, t))

\* Variant of IsRecent that looks at earlier samples only.
IsRecent_past(h, timestamp) ==
    /\ h.intensity * 10 > motionThreshold * 6
    /\ timestamp - h.timestamp < recentWindowMs
    /\ timestamp - h.timestamp > 0

\* the recent filter of detectVigorousShake
IsRecent(h, timestamp) ==
    /\ h.intensity * 10 > motionThreshold * 6
    /\ timestamp - h.timestamp < recentWindowMs

RecentShakes(hist, timestamp) ==
    SelectSeq(hist, LAMBDA h : IsRecent(h, timestamp))

\* Variant of BelowThreshold without the fail-fast test.
BelowThreshold_never(currentIntensity) == FALSE

\* the fail-fast test of detectVigorousShake
BelowThreshold(currentIntensity) == currentIntensity < motionThreshold

\* Variant of detectVigorousShake whose sustained rule accepts a mean of
\* exactly 0.7 x threshold.
detectVigorousShake_meanInclusive(hist, currentIntensity, timestamp) ==
    IF BelowThreshold(currentIntensity) THEN FALSE
    ELSE LET recent == RecentShakes(hist, timestamp) IN
         IF Len(recent) < 1 THEN FALSE
         ELSE IF Len(recent) = 1
              THEN recent[1].intensity * 10 > motionThreshold * 12
              ELSE SumIntensity(recent) * 10 >= motionThreshold * 7 * Len(recent)

\* Variant of detectVigorousShake whose solo rule accepts every sample that
\* passed the fail-fast test.
detectVigorousShake_soloAny(hist, currentIntensity, timestamp) ==
    IF BelowThreshold(currentIntensity) THEN FALSE
    ELSE LET recent == RecentShakes(hist, timestamp) IN
         IF Len(recent) < 1 THEN FALSE
         ELSE IF Len(recent) = 1
              THEN recent[1].intensity >= motionThreshold
              ELSE SumIntensity(recent) * 10 > motionThreshold * 7 * Len(recent)

\* Variant of detectVigorousShake whose sustained rule asks for a mean above
\* 0.8 x threshold.
detectVigorousShake_mean08(hist, currentIntensity, timestamp) ==
    IF BelowThreshold(currentIntensity) THEN FALSE
    ELSE LET recent == RecentShakes(hist, timestamp) IN
         IF Len(recent) < 1 THEN FALSE
         ELSE IF Len(recent) = 1
              THEN recent[1].intensity * 10 > motionThreshold * 12
              ELSE SumIntensity(recent) * 10 > motionThreshold * 8 * Len(recent)

\* Variant of detectVigorousShake whose solo rule asks for 1.5 x threshold.
detectVigorousShake_solo15(hist, currentIntensity, timestamp) ==
    IF BelowThreshold(currentIntensity) THEN FALSE
    ELSE LET recent == RecentShakes(hist, timestamp) IN
         IF Len(recent) < 1 THEN FALSE
         ELSE IF Len(recent) = 1
              THEN recent[1].intensity * 10 > motionThreshold * 15
              ELSE SumIntensity(recent) * 10 > motionThreshold * 7 * Len(recent)

detectVigorousShake(hist, currentIntensity, timestamp) ==
    IF BelowThreshold(currentIntensity) THEN FALSE
    ELSE LET recent == RecentShakes(hist, timestamp) IN
         IF Len(recent) < 1 THEN FALSE
         ELSE IF Len(recent) = 1
              THEN recent[1].intensity * 10 > motionThreshold * 12
              ELSE SumIntensity(recent) * 10 > motionThreshold * 7 * Len(recent)

\* Variant of MotionGateOpen that also opens at exactly motionCooldown.
MotionGateOpen_inclusive(t, lmt) == t - lmt >= motionCooldown

\* (now - this.lastMotionTime) > this.motionCooldown
MotionGateOpen(t, lmt) == t - lmt > motionCooldown

\* Variant of SoundCooldownActive that never refuses a trigger.
SoundCooldownActive_never(t, lst) == FALSE

\* now - this.lastSoundTime < this.soundCooldown
SoundCooldownActive(t, lst) == t - lst < soundCooldown

\* Variant of getCurrentShakeIntensity that reads the oldest history entry.
getCurrentShakeIntensity_oldest(hist) ==
    IF Len(hist) = 0 THEN "medium"
    ELSE LET latest == hist[1].intensity IN
         IF latest * 10 > motionThreshold * 15 THEN "strong"
         ELSE IF latest * 10 > motionThreshold * 10 THEN "medium"
         ELSE "light"

\* Variant of getCurrentShakeIntensity with inclusive class boundaries.
getCurrentShakeIntensity_inclusive(hist) ==
    IF Len(hist) = 0 THEN "medium"
    ELSE LET latest == hist[Len(hist)].intensity IN
         IF latest * 10 >= motionThreshold * 15 THEN "strong"
         ELSE IF latest * 10 >= motionThreshold * 10 THEN "medium"
         ELSE "light"

getCurrentShakeIntensity(hist) ==
    IF Len(hist) = 0 THEN "medium"
    ELSE LET latest == hist[Len(hist)].intensity IN
         IF latest * 10 > motionThreshold * 15 THEN "strong"
         ELSE IF latest * 10 > motionThreshold * 10 THEN "medium"
         ELSE "light"

\* isFastRhythm of getRhythmContext
IsFastRhythm(t, lmt) == t - lmt < fastRhythmMs

\* Variant of AudioReady that only asks for a context to exist.
AudioReady_exists(ctx) == ctx # "none"

\* the guard of playSpoonSound
AudioReady(ctx) == ctx = "running"


\* ----------------------------------------------------------- synthesis
\* One Math.random() draw per program point; dur and var are drawn once per
\* burst (indexed by the burst number).
BurstIdx == 0..6
MkDraws(c, b, tc, tb, ds, vs, tn) ==
    [count |-> c, base |-> b, tcount |-> tc, tbase |-> tb,
     dur |-> ds, var |-> vs, tone |-> tn]

\* Draws explored by Spec: every call of one hit returns the same value.
UniformDraws == { MkDraws(r, r, r, r, [i \in BurstIdx |-> r], [i \in BurstIdx |-> r], r)
                  : r \in Rand }

\* Draws for the arithmetic of one hit: the two draws that decide the number
\* of bursts and the draw of the durations take the low, a middle and the
\* high value independently; the per-burst draws are uniform.
DrawValues == {0, 50, 99}
SynthDraws ==
    { MkDraws(c, b, tc, b, [i \in BurstIdx |-> r], [i \in BurstIdx |-> r], b) :
        c \in DrawValues, b \in DrawValues, tc \in DrawValues, r \in Rand }

\* The classes getCurrentShakeIntensity returns.
Classes == {"light", "medium", "strong"}

\* numBursts (hundredths) chosen by the intensity switch
BaseBursts(intensity, rs) ==
    IF intensity = "strong" THEN 300 + 2 * rs.count
    ELSE IF intensity = "light" THEN 100 + 2 * rs.count
    ELSE 200 + 2 * rs.count

\* baseDur (microseconds) chosen by the intensity switch
BaseDur(intensity, rs) ==
    IF intensity = "strong" THEN 80000 + 400 * rs.base
    ELSE IF intensity = "light" THEN 40000 + 200 * rs.base
    ELSE 60000 + 300 * rs.base

\* Variant of RhythmBursts in which a fast rhythm adds a burst.
RhythmBursts_grow(nb, fast) == IF fast THEN nb + 100 ELSE nb

\* if (rhythm.isFastRhythm) { numBursts = Math.max(1, numBursts - 1); baseDur *= 0.8 }
RhythmBursts(nb, fast) == IF fast THEN Max(100, nb - 100) ELSE nb
RhythmDur(bd, fast) == IF fast THEN (bd * 8) \div 10 ELSE bd

\* the tempo branches of createVariedSpoonPercussion (script.js only)
TempoBursts(nb, tp, rs) ==
    IF tp > 20 THEN (4 + (rs.tcount * 4) \div 100) * 100
    ELSE IF tp > 15 THEN Min(nb * 2, 600)
    ELSE IF tp < 7 THEN 100
    ELSE IF tp < 9 THEN Max(((nb * 6) \div 1000) * 100, 100)
    ELSE nb

TempoDur(bd, tp, rs) ==
    IF tp > 20 THEN 30000 + 200 * rs.tbase
    ELSE IF tp > 15 THEN 40000 + 200 * rs.tbase
    ELSE IF tp < 7 THEN 120000 + 600 * rs.tbase
    ELSE IF tp < 9 THEN 80000 + 400 * rs.tbase
    ELSE bd

\* [numBursts, baseDur] handed to createSpoonPercussionBursts
createVariedSpoonPercussion(b, intensity, fast, tp, rs) ==
    LET nb == RhythmBursts(BaseBursts(intensity, rs), fast)
        bd == RhythmDur(BaseDur(intensity, rs), fast)
    IN IF b = "script"
       THEN [numBursts |-> TempoBursts(nb, tp, rs), baseDur |-> TempoDur(bd, tp, rs)]
       ELSE [numBursts |-> nb, baseDur |-> bd]

\* iterations of  for (let i = 0; i < numBursts; i++)
LoopCount(nb) == (nb + 99) \div 100

\* start time of burst i
BurstStart(b, startTime, i, tp, rs) ==
    IF b = "part000" THEN startTime + i * 10000
    ELSE IF tp > 20 THEN startTime + i * 3000 + i * 1000 + (rs.var[i] - 50) * 20
    ELSE IF tp > 15 THEN startTime + i * 8000 + (IF i % 2 = 0 THEN 2000 ELSE 12000)
    ELSE IF tp < 7 THEN startTime + i * 80000
    ELSE IF tp < 9 THEN startTime + i * 40000
    ELSE startTime + i * 15000 + (rs.var[i] - 50) * 50

\* Variant of BurstDur that gives every burst a duration of zero.
BurstDur_zero(bd, i, rs) == 0

\* dur = baseDur * (0.8 + Math.random() * 0.4)
BurstDur(bd, i, rs) == (bd * (800 + 4 * rs.dur[i])) \div 1000

\* audioContext.sampleRate values (Hz)
SampleRates == {8000, 44100, 48000}

\* bufferSize of a burst lasting dur microseconds, in ten-thousandths of a
\* sample (the rates are multiples of 100 Hz): script.js takes
\* Math.max(1, Math.floor(sampleRate * dur)), part_000 the product as it is.
BufferSize(b, rate, dur) ==
    IF b = "script" THEN Max(1, ((rate \div 100) * dur) \div 10000) * 10000
    ELSE (rate \div 100) * dur

\* Length in samples of the buffer createBuffer(1, bufferSize, sampleRate)
\* makes: the argument is converted to an unsigned long, which drops the
\* fraction; 0 stands for the NotSupportedError a length of zero raises.
BufferLength(size) == size \div 10000

\* Variant of createSpoonPercussionBursts in which every burst reads the
\* audio clock again, the clock having advanced by a millisecond per burst.
createSpoonPercussionBursts_reread(b, cfg, startTime, nb, bd, tp, rs) ==
    [k \in 1..LoopCount(nb) |->
        [source |-> "noise", cfg |-> cfg, state |-> "scheduled",
         start |-> BurstStart(b, startTime + (k - 1) * 1000, k - 1, tp, rs),
         contextTime |-> BurstStart(b, startTime + (k - 1) * 1000, k - 1, tp, rs)
                           + BurstDur(bd, k - 1, rs)]]

\* the audioInstances entries pushed by createSpoonPercussionBursts; cfg is
\* the material whose parameters the nodes of the voice were given, start
\* the time handed to source.start() and contextTime the one handed to
\* source.stop()
createSpoonPercussionBursts(b, cfg, startTime, nb, bd, tp, rs) ==
    [k \in 1..LoopCount(nb) |->
        [source |-> "noise", cfg |-> cfg, state |-> "scheduled",
         start |-> BurstStart(b, startTime, k - 1, tp, rs),
         contextTime |-> BurstStart(b, startTime, k - 1, tp, rs) + BurstDur(bd, k - 1, rs)]]

\* toneDuration of createVariedMaterialTone (part_000)
ToneDur(intensity, fast, rs) ==
    LET d == IF intensity = "strong" THEN 20000 + 150 * rs.tone
             ELSE IF intensity = "light" THEN 8000 + 70 * rs.tone
             ELSE 12000 + 100 * rs.tone
    IN IF fast THEN (d * 7) \div 10 ELSE d

\* the tempo branches applied to toneDur by createRichMaterialTone (script.js)
TempoToneDur(d, tp) ==
    IF tp > 20 THEN (d * 6) \div 10
    ELSE IF tp > 15 THEN d
    ELSE IF tp < 7 THEN d * 2
    ELSE IF tp < 9 THEN (d * 3) \div 2
    ELSE d

\* the tone duration each build computes
ToneDurOf(b, intensity, fast, tp, rs) ==
    IF b = "script" THEN TempoToneDur(ToneDur(intensity, fast, rs), tp)
    ELSE ToneDur(intensity, fast, rs)

\* createRichMaterialTone of script.js reads toneVol (line 1333) before its
\* let declaration (line 1357): a ReferenceError on every call.
ToneThrows(b) == b = "script"

\* the audioInstances entries pushed by the tonal layer
createMaterialTone(b, cfg, startTime, intensity, fast, rs) ==
    IF ToneThrows(b) THEN <<>>
    ELSE << [source |-> "osc", cfg |-> cfg, state |-> "scheduled",
             start |-> startTime,
             contextTime |-> startTime + ToneDur(intensity, fast, rs)] >>

\* createEffectsChain connects every voice to effectsChain.output, the
\* destination of the context that was live when the chain was first built;
\* connecting to a node of another (closed) context raises InvalidAccessError.
EffectsThrow(b, chain) == b = "script" /\ chain = "stale"

\* the filter predicate of cleanupAudioInstances
CleanupKeep(inst, ct) == inst.contextTime < ct + cleanupSlackUs

cleanupAudioInstances(insts, ct) ==
    SelectSeq(insts, LAMBDA inst : CleanupKeep(inst, ct))

\* playSpoonSound runs to its last line only when no constructor throws
PlayThrows(b, chain) == EffectsThrow(b, chain) \/ ToneThrows(b)

\* Variant of RenderInstances in which a new hit stops the voices of the
\* earlier hits that are still playing.
RenderInstances_mono(b, cfg, insts, chain, ct, intensity, fast, tp, rs) ==
    LET p == createVariedSpoonPercussion(b, intensity, fast, tp, rs)
        bursts == createSpoonPercussionBursts(b, cfg, ct, p.numBursts, p.baseDur, tp, rs)
        tone == createMaterialTone(b, cfg, ct, intensity, fast, rs)
        old == [i \in DOMAIN insts |->
                   IF insts[i].state = "scheduled" /\ insts[i].contextTime > ct
                   THEN [insts[i] EXCEPT !.state = "cut"] ELSE insts[i]]
    IN old \o bursts \o tone

\* audioInstances after playSpoonSound with a running context
RenderInstances(b, cfg, insts, chain, ct, intensity, fast, tp, rs) ==
    LET p == createVariedSpoonPercussion(b, intensity, fast, tp, rs)
        bursts == createSpoonPercussionBursts(b, cfg, ct, p.numBursts, p.baseDur, tp, rs)
        tone == createMaterialTone(b, cfg, ct, intensity, fast, rs)
    IN IF EffectsThrow(b, chain) THEN insts
       ELSE IF ToneThrows(b) THEN insts \o bursts
       ELSE cleanupAudioInstances(insts \o bursts \o tone, ct)

\* playSpoonSound(): hist and lmt are shakeHistory and lastMotionTime as the
\* caller left them
PlaySpoonSound(hist, lmt, rs) ==
    IF ~AudioReady(audioContext)
    THEN UNCHANGED << audioInstances, lastHit, effectsChain >>
    ELSE LET intensity == getCurrentShakeIntensity(hist)
             fast == IsFastRhythm(now, lmt)
         IN /\ lastHit' = [intensity |-> intensity, isFastRhythm |-> fast,
                           cfg |-> currentSound]
            /\ audioInstances' = RenderInstances(build, currentSound, audioInstances,
                                     effectsChain, currentTime, intensity, fast,
                                     tempo, rs)
            /\ Len(audioInstances') <= MaxInstances
            /\ effectsChain' = IF build = "script" /\ effectsChain = "unset"
                               THEN "bound" ELSE effectsChain

\* Variant of triggerSound that starts the cooldown only when the sound can
\* be played.
TriggerSound_ready(hist, lmt, rs) ==
    IF SoundCooldownActive(now, lastSoundTime) \/ ~AudioReady(audioContext)
    THEN UNCHANGED << lastSoundTime, audioInstances, lastHit, effectsChain >>
    ELSE /\ lastSoundTime' = now
         /\ PlaySpoonSound(hist, lmt, rs)

\* triggerSound()
TriggerSound(hist, lmt, rs) ==
    IF SoundCooldownActive(now, lastSoundTime)
    THEN UNCHANGED << lastSoundTime, audioInstances, lastHit, effectsChain >>
    ELSE /\ lastSoundTime' = now
         /\ PlaySpoonSound(hist, lmt, rs)

\* triggerSound() ends with an exception
TriggerThrows ==
    /\ ~SoundCooldownActive(now, lastSoundTime)
    /\ AudioReady(audioContext)
    /\ PlayThrows(build, effectsChain)


\* -------------------------------------------------------------- actions
IdleEvent == [acceleration |-> NULL, accelerationIncludingGravity |-> NULL]

Init ==
    /\ build \in Builds
    /\ now = Epoch
    /\ currentTime = 0
    /\ isListening = FALSE
    /\ audioContext = "none"
    /\ listeners = 0
    /\ awaiting = 0
    /\ event = IdleEvent
    /\ pendingCalls = 0
    /\ lastSoundTime = 0
    /\ lastMotionTime = 0
    /\ lastAcceleration = <<0, 0, 0>>
    /\ shakeHistory = <<>>
    /\ audioInstances = <<>>
    /\ currentSound = "wooden-spoon"
    /\ tempo = 10
    /\ effectsChain = "unset"
    /\ lastHit = NoHit
    /\ threw = FALSE

\* Time passes between two handler invocations; the audio clock runs while
\* the context is running.
Tick(d, maxElapsed) ==
    /\ pendingCalls = 0
    /\ now + d <= Epoch + maxElapsed
    /\ now' = now + d
    /\ currentTime' = IF audioContext = "running" THEN currentTime + d * 1000
                      ELSE currentTime
    /\ UNCHANGED << build, isListening, audioContext, listeners, awaiting, event,
                    pendingCalls, lastSoundTime, lastMotionTime, lastAcceleration,
                    shakeHistory, audioInstances, currentSound, tempo,
                    effectsChain, lastHit, threw >>

\* startMotionDetection() up to its first await.  The start button is
\* disabled while listening.  path: "listen" (addEventListener reached
\* synchronously), "none" (no DeviceMotionEvent, or registration failed),
\* "await" (suspended at resume() or at requestPermission()).
\* A call that may register a listener is followed while fewer than
\* maxListeners are registered or about to be.
StartMotionDetection(ctxState, path, maxListeners) ==
    /\ pendingCalls = 0
    /\ ~isListening
    /\ path # "none" => listeners + awaiting < maxListeners
    /\ ctxState = "suspended" => path = "await"
    /\ isListening' = TRUE
    /\ audioContext' = IF audioContext = "none" THEN ctxState ELSE audioContext
    /\ currentTime' = IF audioContext = "none" THEN 0 ELSE currentTime
    /\ listeners' = IF path = "listen" THEN listeners + 1 ELSE listeners
    /\ awaiting' = IF path = "await" THEN awaiting + 1 ELSE awaiting
    /\ threw' = FALSE
    /\ UNCHANGED << build, now, event, pendingCalls, lastSoundTime, lastMotionTime,
                    lastAcceleration, shakeHistory, audioInstances, currentSound,
                    tempo, effectsChain, lastHit >>

\* An awaited promise of startMotionDetection settles: resume() brings a
\* suspended context to running, requestPermission() answers, and the
\* listener is registered (granted) or not (denied, rejected, unsupported).
StartContinue(resumed, granted) ==
    /\ pendingCalls = 0
    /\ awaiting > 0
    /\ awaiting' = awaiting - 1
    /\ audioContext' = IF audioContext = "suspended" /\ resumed THEN "running"
                       ELSE audioContext
    /\ listeners' = IF granted /\ audioContext' # "suspended" THEN listeners + 1
                    ELSE listeners
    /\ threw' = FALSE
    /\ UNCHANGED << build, now, currentTime, isListening, event, pendingCalls,
                    lastSoundTime, lastMotionTime, lastAcceleration, shakeHistory,
                    audioInstances, currentSound, tempo, effectsChain, lastHit >>

\* this.audioContext.close(): the context stops processing audio.  A voice
\* of that context whose stop time lies ahead is cut, the others have
\* finished; voices of contexts closed earlier stay as they are.
CloseContext(insts, ct) ==
    [i \in DOMAIN insts |->
        IF insts[i].state # "scheduled" THEN insts[i]
        ELSE [insts[i] EXCEPT !.state = IF insts[i].contextTime > ct
                                        THEN "cut" ELSE "finished"]]

\* Variant of StopMotionDetection that also resets the motion history.
StopMotionDetection_clear ==
    /\ pendingCalls = 0
    /\ isListening
    /\ isListening' = FALSE
    /\ audioContext' = "none"
    /\ currentTime' = 0
    /\ audioInstances' = IF audioContext = "none" THEN audioInstances
                         ELSE CloseContext(audioInstances, currentTime)
    /\ effectsChain' = IF effectsChain = "bound" /\ audioContext # "none"
                       THEN "stale" ELSE effectsChain
    /\ threw' = FALSE
    /\ shakeHistory' = <<>>
    /\ UNCHANGED << build, now, listeners, awaiting, event, pendingCalls,
                    lastSoundTime, lastMotionTime, lastAcceleration,
                    currentSound, tempo, lastHit >>

\* stopMotionDetection().  removeEventListener is given this.handleMotion,
\* which was never registered, so no listener is removed.
StopMotionDetection ==
    /\ pendingCalls = 0
    /\ isListening
    /\ isListening' = FALSE
    /\ audioContext' = "none"
    /\ currentTime' = 0
    /\ audioInstances' = IF audioContext = "none" THEN audioInstances
                         ELSE CloseContext(audioInstances, currentTime)
    /\ effectsChain' = IF effectsChain = "bound" /\ audioContext # "none"
                       THEN "stale" ELSE effectsChain
    /\ threw' = FALSE
    /\ UNCHANGED << build, now, listeners, awaiting, event, pendingCalls,
                    lastSoundTime, lastMotionTime, lastAcceleration, shakeHistory,
                    currentSound, tempo, lastHit >>

\* this.lastMotionTime as getRhythmContext reads it during a motion hit:
\* script.js assigns it before triggerSound(), part_000 after.
RhythmReference(b, t, lmt) == IF b = "script" THEN t ELSE lmt

\* Variant of MotionSample in which a vigorous sample refused by the cooldown
\* restarts the cooldown.
MotionSample_extend(acc, rs, maxHist) ==
    LET totalDelta == TotalDelta(acc, lastAcceleration)
        hist == PushHistory(shakeHistory, totalDelta, now)
        isSignificant == detectVigorousShake(hist, totalDelta, now)
    IN /\ Len(hist) <= maxHist
       /\ shakeHistory' = hist
       /\ IF isSignificant /\ MotionGateOpen(now, lastMotionTime)
          THEN /\ TriggerSound(hist, RhythmReference(build, now, lastMotionTime), rs)
               /\ threw' = TriggerThrows
               /\ lastMotionTime' = IF build = "part000" /\ TriggerThrows
                                    THEN lastMotionTime ELSE now
               /\ lastAcceleration' = IF TriggerThrows THEN lastAcceleration ELSE acc
          ELSE /\ UNCHANGED << lastSoundTime, audioInstances, lastHit, effectsChain >>
               /\ lastMotionTime' = IF isSignificant THEN now ELSE lastMotionTime
               /\ threw' = FALSE
               /\ lastAcceleration' = acc

\* handleMotion(event) from the delta computation on.
MotionSample(acc, rs, maxHist) ==
    LET totalDelta == TotalDelta(acc, lastAcceleration)
        hist == PushHistory(shakeHistory, totalDelta, now)
        isSignificant == detectVigorousShake(hist, totalDelta, now)
    IN /\ Len(hist) <= maxHist
       /\ shakeHistory' = hist
       /\ IF isSignificant /\ MotionGateOpen(now, lastMotionTime)
          THEN /\ TriggerSound(hist, RhythmReference(build, now, lastMotionTime), rs)
               /\ threw' = TriggerThrows
               /\ lastMotionTime' = IF build = "part000" /\ TriggerThrows
                                    THEN lastMotionTime ELSE now
               /\ lastAcceleration' = IF TriggerThrows THEN lastAcceleration ELSE acc
          ELSE /\ UNCHANGED << lastSoundTime, lastMotionTime, audioInstances,
                               lastHit, effectsChain >>
               /\ threw' = FALSE
               /\ lastAcceleration' = acc

\* handleMotion(event)
handleMotion(ev, draws, maxHist) ==
    IF ~isListening \/ Acceleration(ev) = NULL
    THEN /\ threw' = FALSE
         /\ UNCHANGED << lastSoundTime, lastMotionTime, lastAcceleration,
                         shakeHistory, audioInstances, lastHit, effectsChain >>
    ELSE \E rs \in draws : MotionSample(Acceleration(ev), rs, maxHist)

\* The browser dispatches a devicemotion event: the first registered
\* listener runs handleMotion at once, the others follow (NextListener).
DeviceMotion(ev, draws, maxHist) ==
    /\ pendingCalls = 0
    /\ listeners > 0
    /\ handleMotion(ev, draws, maxHist)
    /\ pendingCalls' = listeners - 1
    /\ event' = IF listeners > 1 THEN ev ELSE IdleEvent
    /\ UNCHANGED << build, now, currentTime, isListening, audioContext, listeners,
                    awaiting, currentSound, tempo >>

\* The next listener of the event being dispatched runs handleMotion.
NextListener(draws, maxHist) ==
    /\ pendingCalls > 0
    /\ handleMotion(event, draws, maxHist)
    /\ pendingCalls' = pendingCalls - 1
    /\ event' = IF pendingCalls = 1 THEN IdleEvent ELSE event
    /\ UNCHANGED << build, now, currentTime, isListening, audioContext, listeners,
                    awaiting, currentSound, tempo >>

\* Variant of ManualTrigger in which an accepted manual trigger counts as a
\* motion hit and sets lastMotionTime.
ManualTrigger_hit(onSpoon, draws) ==
    /\ pendingCalls = 0
    /\ onSpoon \/ isListening
    /\ \E rs \in draws : TriggerSound(shakeHistory, lastMotionTime, rs)
    /\ threw' = TriggerThrows
    /\ lastMotionTime' = IF SoundCooldownActive(now, lastSoundTime)
                         THEN lastMotionTime ELSE now
    /\ UNCHANGED << build, now, currentTime, isListening, audioContext, listeners,
                    awaiting, event, pendingCalls, lastAcceleration, shakeHistory,
                    currentSound, tempo >>

\* A manual trigger: click or touchstart on the spoon (always), a click
\* elsewhere or the Space key (while listening).
ManualTrigger(onSpoon, draws) ==
    /\ pendingCalls = 0
    /\ onSpoon \/ isListening
    /\ \E rs \in draws : TriggerSound(shakeHistory, lastMotionTime, rs)
    /\ threw' = TriggerThrows
    /\ UNCHANGED << build, now, currentTime, isListening, audioContext, listeners,
                    awaiting, event, pendingCalls, lastMotionTime,
                    lastAcceleration, shakeHistory, currentSound, tempo >>

\* Variant of SelectSound that also re-tunes the voices already scheduled.
SelectSound_retune(s) ==
    /\ pendingCalls = 0
    /\ currentSound' = s
    /\ audioInstances' = [i \in DOMAIN audioInstances |->
                              [audioInstances[i] EXCEPT !.cfg = s]]
    /\ threw' = FALSE
    /\ UNCHANGED << build, now, currentTime, isListening, audioContext, listeners,
                    awaiting, event, pendingCalls, lastSoundTime, lastMotionTime,
                    lastAcceleration, shakeHistory, tempo, effectsChain, lastHit >>

\* selectSound(sound)
SelectSound(s) ==
    /\ pendingCalls = 0
    /\ currentSound' = s
    /\ threw' = FALSE
    /\ UNCHANGED << build, now, currentTime, isListening, audioContext, listeners,
                    awaiting, event, pendingCalls, lastSoundTime, lastMotionTime,
                    lastAcceleration, shakeHistory, audioInstances, tempo,
                    effectsChain, lastHit >>

\* the input handler of the tempo slider (script.js only)
SetTempo(t) ==
    /\ pendingCalls = 0
    /\ build = "script"
    /\ tempo' = t
    /\ threw' = FALSE
    /\ UNCHANGED << build, now, currentTime, isListening, audioContext, listeners,
                    awaiting, event, pendingCalls, lastSoundTime, lastMotionTime,
                    lastAcceleration, shakeHistory, audioInstances, currentSound,
                    effectsChain, lastHit >>

StartPaths == {"none", "await", "listen"}
ContextStates == {"suspended", "running"}

\* Every call of one hit draws the same Math.random() value.
FixedDraws == { d \in UniformDraws : d.count = 0 }

\* The events of the gate explorations.
GateEvents == { e \in MotionEvents : e.acceleration # <<5, 0, 0>> }

\* The life cycle, the sensor with one registered listener, manual triggers,
\* a 50 ms clock.
Next ==
    \/ \E d \in TickSteps : Tick(d, MaxElapsed)
    \/ \E c \in ContextStates, p \in StartPaths : StartMotionDetection(c, p, 1)
    \/ \E r \in BOOLEAN, g \in BOOLEAN : StartContinue(r, g)
    \/ StopMotionDetection
    \/ \E ev \in GateEvents : DeviceMotion(ev, FixedDraws, MaxHist)
    \/ \E sp \in BOOLEAN : ManualTrigger(sp, FixedDraws)

Spec == Init /\ [][Next]_vars

\* The same handlers on a coarse clock: samples 250 and 500 ms apart, around
\* the 500 ms window of shakeHistory.
WindowSteps == {250, 500}

NextWindow ==
    \/ \E d \in WindowSteps : Tick(d, WindowElapsed)
    \/ \E c \in ContextStates, p \in StartPaths : StartMotionDetection(c, p, 1)
    \/ \E r \in BOOLEAN, g \in BOOLEAN : StartContinue(r, g)
    \/ StopMotionDetection
    \/ \E ev \in GateEvents : DeviceMotion(ev, FixedDraws, MaxHist)
    \/ \E sp \in BOOLEAN : ManualTrigger(sp, FixedDraws)

SpecWindow == Init /\ [][NextWindow]_vars

\* The same handlers with pauses of 2.5 s between hits, longer than the
\* two seconds of cleanupAudioInstances.
IdleSteps == {2500}

NextIdle ==
    \/ \E d \in IdleSteps : Tick(d, IdleElapsed)
    \/ \E c \in ContextStates, p \in StartPaths : StartMotionDetection(c, p, 1)
    \/ \E r \in BOOLEAN, g \in BOOLEAN : StartContinue(r, g)
    \/ StopMotionDetection
    \/ \E ev \in GateEvents : DeviceMotion(ev, FixedDraws, MaxHist)
    \/ \E sp \in BOOLEAN : ManualTrigger(sp, FixedDraws)

SpecIdle == Init /\ [][NextIdle]_vars

\* Three samples 50 and 40 ms apart.
ScenarioSteps == {40, 50}

NextScenario ==
    \/ \E d \in ScenarioSteps : Tick(d, ScenarioElapsed)
    \/ \E c \in ContextStates, p \in StartPaths : StartMotionDetection(c, p, 1)
    \/ \E r \in BOOLEAN, g \in BOOLEAN : StartContinue(r, g)
    \/ \E ev \in GateEvents : DeviceMotion(ev, FixedDraws, ScenarioSamples)

SpecScenario == Init /\ [][NextScenario]_vars

ListenerSteps == {100}

\* Shaking on a 100 ms clock: up to ScenarioSamples samples, one listener,
\* no manual trigger.
NextShaking ==
    \/ \E d \in ListenerSteps : Tick(d, MaxElapsed)
    \/ \E c \in ContextStates, p \in StartPaths : StartMotionDetection(c, p, 1)
    \/ \E r \in BOOLEAN, g \in BOOLEAN : StartContinue(r, g)
    \/ \E ev \in GateEvents : DeviceMotion(ev, FixedDraws, ScenarioSamples)

SpecShaking == Init /\ [][NextShaking]_vars

\* Gentle shaking: four accelerations on a rectangle with sides 5 and 8, so
\* that successive samples have totalDelta 5, 8 or 13, up to
\* SustainedSamples samples inside one 200 ms window.
RectangleEvents ==
    { [acceleration |-> a, accelerationIncludingGravity |-> NULL] :
        a \in { <<0, 0, 0>>, <<5, 0, 0>>, <<5, 8, 0>>, <<0, 8, 0>> } }

NextSustained ==
    \/ \E d \in ListenerSteps : Tick(d, MaxElapsed)
    \/ \E c \in ContextStates, p \in StartPaths : StartMotionDetection(c, p, 1)
    \/ \E r \in BOOLEAN, g \in BOOLEAN : StartContinue(r, g)
    \/ \E ev \in RectangleEvents : DeviceMotion(ev, FixedDraws, SustainedSamples)

SpecSustained == Init /\ [][NextSustained]_vars

\* Start/stop cycles that register further listeners: every devicemotion
\* event is handled once per registered listener.

NextListeners ==
    \/ \E d \in ListenerSteps : Tick(d, MaxElapsed)
    \/ \E c \in ContextStates, p \in StartPaths :
           StartMotionDetection(c, p, MaxListeners)
    \/ \E r \in BOOLEAN, g \in BOOLEAN : StartContinue(r, g)
    \/ StopMotionDetection
    \/ \E ev \in GateEvents : DeviceMotion(ev, FixedDraws, MaxHist)
    \/ NextListener(FixedDraws, MaxHist)

SpecListeners == Init /\ [][NextListeners]_vars

\* The renderer under every material, tempo and draw, driven by manual
\* triggers and by samples from the full event set.
NextRender ==
    \/ \E d \in ListenerSteps : Tick(d, MaxElapsed)
    \/ \E p \in StartPaths : StartMotionDetection("running", p, 1)
    \/ \E r \in BOOLEAN, g \in BOOLEAN : StartContinue(r, g)
    \/ StopMotionDetection
    \/ \E ev \in MotionEvents : DeviceMotion(ev, UniformDraws, 1)
    \/ \E sp \in BOOLEAN : ManualTrigger(sp, UniformDraws)
    \/ \E sd \in Sounds : SelectSound(sd)
    \/ \E t \in Tempos : SetTempo(t)

SpecRender == Init /\ [][NextRender]_vars

\* The history under every operation of the page, on the coarse clock:
\* start, stop, manual triggers and material switches between samples 250
\* and 500 ms apart.
\* Events with totalDelta 12, 10, 6 or 0 between them, without gravity
\* only, or without any acceleration.
HistoryEvents ==
    { e \in GateEvents : e.acceleration \in {NULL, <<4, 4, 4>>, <<4, -1, -1>>} }

NextHistory ==
    \/ \E d \in WindowSteps : Tick(d, WindowElapsed)
    \/ StartMotionDetection("running", "listen", 1)
    \/ StopMotionDetection
    \/ \E ev \in HistoryEvents : DeviceMotion(ev, FixedDraws, MaxHist)
    \/ \E sp \in BOOLEAN : ManualTrigger(sp, FixedDraws)
    \/ \E sd \in Sounds : SelectSound(sd)

SpecHistory == Init /\ [][NextHistory]_vars

\* Triggers with and without a running audio context: taps on the spoon
\* before the first start, and taps and motion hits after a restart has left
\* the context suspended, then triggers 50 and 100 ms later.
NextSilent ==
    \/ \E d \in TickSteps : Tick(d, MaxElapsed)
    \/ \E c \in ContextStates, p \in StartPaths :
           StartMotionDetection(c, p, MaxListeners)
    \/ \E r \in BOOLEAN, g \in BOOLEAN : StartContinue(r, g)
    \/ StopMotionDetection
    \/ \E ev \in GateEvents : DeviceMotion(ev, FixedDraws, 1)
    \/ NextListener(FixedDraws, 1)
    \/ \E sp \in BOOLEAN : ManualTrigger(sp, FixedDraws)

SpecSilent == Init /\ [][NextSilent]_vars

\* The synthesis under every tempo pattern: fast and slow hits from manual
\* triggers and from a motion sample, with a running context.
NextSynth ==
    \/ \E d \in ListenerSteps : Tick(d, MaxElapsed)
    \/ StartMotionDetection("running", "listen", 1)
    \/ \E ev \in MotionEvents : DeviceMotion(ev, UniformDraws, 1)
    \/ \E sp \in BOOLEAN : ManualTrigger(sp, UniformDraws)
    \/ \E t \in PatternTempos : SetTempo(t)

SpecSynth == Init /\ [][NextSynth]_vars

\* ------------------------------------------------------------ properties
\* The newest entry of a non-empty history.
Newest(hist) == hist[Len(hist)]

\* A step in which handleMotion processed a sample (it pushed an entry).
SampleStep == shakeHistory' # shakeHistory

\* C1: any two motion hits (steps that assign lastMotionTime) are more than
\* motionCooldown milliseconds apart, whatever the samples and their spacing.
C1_HitsApart ==
    [][lastMotionTime' # lastMotionTime =>
          /\ lastMotionTime' = now
          /\ lastMotionTime' - lastMotionTime > motionCooldown]_vars

\* Two accepted hits 200 ms apart: both samples pass the solo rule alone.
C1_Witness ==
    /\ Len(shakeHistory) = 2
    /\ shakeHistory[1].timestamp = Epoch
    /\ shakeHistory[2].timestamp = Epoch + 200
    /\ shakeHistory[1].intensity * 10 > motionThreshold * 12
    /\ shakeHistory[2].intensity * 10 > motionThreshold * 12
    /\ lastMotionTime = Epoch + 200

\* C2 as stated: a sample whose totalDelta is at most motionThreshold,
\* equality included, never fires a hit.
C2_AtMostThreshold ==
    [][(SampleStep /\ Newest(shakeHistory').intensity <= motionThreshold) =>
          lastMotionTime' = lastMotionTime]_vars

\* C2: a sample whose totalDelta is strictly below motionThreshold never
\* fires a hit, whatever the history holds.
C2_BelowThreshold ==
    [][(SampleStep /\ Newest(shakeHistory').intensity < motionThreshold) =>
          /\ lastMotionTime' = lastMotionTime
          /\ lastSoundTime' = lastSoundTime
          /\ audioInstances' = audioInstances]_vars

\* A sample below the threshold was refused although the recent entries,
\* itself included, satisfy the sustained rule (mean 6 > 5.6).
C2_Witness ==
    /\ Len(shakeHistory) = 2
    /\ shakeHistory[1].intensity = 6
    /\ shakeHistory[2].intensity = 6
    /\ shakeHistory[2].timestamp = now
    /\ now - shakeHistory[1].timestamp < recentWindowMs
    /\ lastMotionTime = 0

\* The three samples of the scenario: totalDelta 0, 12 and 10 at Epoch,
\* Epoch + 50 and Epoch + 90, processed from the initial state.
ScenarioHistory ==
    << [intensity |-> 0, timestamp |-> Epoch],
       [intensity |-> 12, timestamp |-> Epoch + 50],
       [intensity |-> 10, timestamp |-> Epoch + 90] >>

\* C3 as stated: after the three samples the only hit is the one of the
\* third sample (none at +50, exactly one at +90), rendered as medium.
C3_HitAtNinety ==
    shakeHistory = ScenarioHistory =>
        /\ lastMotionTime = Epoch + 90
        /\ lastHit # NoHit => lastHit.intensity = "medium"

\* C3: after the three samples the only hit is the one of the second sample
\* (12 alone passes the solo rule, 12 > 9.6); the third sample, 40 ms later,
\* is refused by motionCooldown; the hit is rendered as medium.
C3_HitAtFifty ==
    shakeHistory = ScenarioHistory =>
        /\ lastMotionTime = Epoch + 50
        /\ lastSoundTime = Epoch + 50
        /\ lastHit # NoHit => lastHit.intensity = "medium"

\* The scenario was played with a running context and its hit was rendered.
C3_Witness ==
    /\ shakeHistory = ScenarioHistory
    /\ now = Epoch + 90
    /\ lastMotionTime = Epoch + 50
    /\ lastHit.intensity = "medium"

\* A step of stopMotionDetection.
StopStep == isListening /\ ~isListening'

\* C4: a trigger arriving while less than soundCooldown ms have passed since
\* the last accepted one starts no voice and leaves lastSoundTime alone, so
\* two accepted triggers are at least soundCooldown apart.  (A stop in that
\* interval triggers nothing; closing the context marks the voices.)
C4_SoundCooldown ==
    [][/\ (now - lastSoundTime < soundCooldown /\ ~StopStep) =>
             /\ lastSoundTime' = lastSoundTime
             /\ audioInstances' = audioInstances
             /\ lastHit' = lastHit
       /\ lastSoundTime' # lastSoundTime =>
             /\ lastSoundTime' = now
             /\ lastSoundTime' - lastSoundTime >= soundCooldown]_vars

\* A motion hit passed the gate 50 ms after an accepted trigger and its
\* triggerSound call returned early.
C4_Witness ==
    /\ lastMotionTime = now
    /\ lastSoundTime >= Epoch
    /\ now - lastSoundTime = 50
    /\ audioContext = "running"

\* C5: a trigger accepted while the audio context is absent or not running
\* starts no voice, raises no exception and leaves nothing behind for later:
\* the voices stay as they are when the context starts running afterwards.
C5_NoAudioNoVoices ==
    [][audioContext # "running" =>
          /\ audioInstances' = audioInstances
          /\ lastHit' = lastHit
          /\ effectsChain' = effectsChain
          /\ ~threw']_vars

\* A trigger was accepted while the context was suspended.
C5_Witness ==
    /\ audioContext = "suspended"
    /\ lastSoundTime = now
    /\ now > Epoch
    /\ lastHit = NoHit
    /\ audioInstances = <<>>

\* A step in which playSpoonSound ran past its guard.
RenderStep == lastSoundTime' # lastSoundTime /\ audioContext = "running"

\* A render made by a manual trigger: no sample was processed in the step.
ManualRenderStep == RenderStep /\ ~SampleStep

HasVoice(insts, src, since) ==
    \E i \in DOMAIN insts : insts[i].source = src /\ insts[i].contextTime >= since

\* C6 as stated: every render with a running context schedules at least one
\* noise burst and at least one started tonal voice and returns normally.
C6_RenderCompletes ==
    [][RenderStep =>
          /\ ~threw'
          /\ HasVoice(audioInstances', "noise", currentTime)
          /\ HasVoice(audioInstances', "osc", currentTime)]_vars

\* C7: after each processed sample shakeHistory holds no entry that is
\* 500 ms old or older.
C7_HistoryWindow ==
    [][SampleStep =>
          \A i \in DOMAIN shakeHistory' :
              now' - shakeHistory'[i].timestamp < historyWindowMs]_vars

\* Two samples of totalDelta 0 taken 250 ms apart at an acceleration other
\* than the initial one: the sample that moved lastAcceleration there is
\* no longer in the history, it left when it was 500 ms old.
C7_Witness ==
    /\ Len(shakeHistory) = 2
    /\ shakeHistory[1] = [intensity |-> 0, timestamp |-> Epoch + 250]
    /\ shakeHistory[2] = [intensity |-> 0, timestamp |-> Epoch + 500]
    /\ lastAcceleration # <<0, 0, 0>>

\* C8 as stated: after each rendered hit audioInstances holds no entry whose
\* contextTime lies more than two seconds before the audio clock.
C8_InstancesPruned ==
    [][RenderStep =>
          \A i \in DOMAIN audioInstances' :
              audioInstances'[i].contextTime >= currentTime - cleanupSlackUs]_vars

\* C9 as stated: a manual trigger renders with intensity medium whatever
\* shakeHistory holds.
C9_ManualIsMedium ==
    [][ManualRenderStep => lastHit'.intensity = "medium"]_vars

\* The class the claim gives to a history: medium when empty, else by the
\* newest intensity M: strong iff M > 1.5 x threshold, medium iff
\* M > threshold and not strong, light otherwise.
ClassOf(hist) ==
    IF hist = <<>> THEN "medium"
    ELSE IF 2 * Newest(hist).intensity > 3 * motionThreshold THEN "strong"
    ELSE IF Newest(hist).intensity > motionThreshold THEN "medium"
    ELSE "light"

ClassRank(c) == IF c = "light" THEN 1 ELSE IF c = "medium" THEN 2 ELSE 3

\* C10: every render uses the class of the newest history entry (medium for
\* an empty history), the class is one of three and never decreases when
\* the newest intensity grows.
C10_IntensityClass ==
    [][RenderStep =>
          /\ lastHit'.intensity = ClassOf(shakeHistory')
          /\ lastHit'.intensity \in {"light", "medium", "strong"}
          /\ (lastHit # NoHit /\ shakeHistory # <<>> /\ shakeHistory' # <<>>
               /\ lastHit.intensity = ClassOf(shakeHistory)
               /\ Newest(shakeHistory).intensity <= Newest(shakeHistory').intensity)
              => ClassRank(lastHit.intensity) <= ClassRank(lastHit'.intensity)]_vars

\* A hit whose newest intensity is exactly 1.5 x threshold was rendered as
\* medium.
C10_Witness ==
    /\ shakeHistory # <<>>
    /\ Newest(shakeHistory).intensity * 10 = motionThreshold * 15
    /\ Newest(shakeHistory).timestamp = now
    /\ lastSoundTime = now
    /\ lastMotionTime = now
    /\ lastHit.intensity = "medium"

\* C11: selectSound leaves every voice already scheduled as it is (same
\* material, same times), and a render pushes voices of the material selected
\* at that moment behind the voices that were there.
C11_SwitchKeepsVoices ==
    [][/\ currentSound' # currentSound => audioInstances' = audioInstances
       /\ RenderStep =>
             /\ Len(audioInstances') >= Len(audioInstances)
             /\ \A i \in DOMAIN audioInstances' :
                    IF i <= Len(audioInstances)
                    THEN audioInstances'[i] = audioInstances[i]
                    ELSE audioInstances'[i].cfg = currentSound]_vars

\* A hit rendered under wooden-spoon is still scheduled as it was after the
\* switch to metal-spoon and a hit rendered under metal-spoon.
C11_Witness ==
    /\ currentSound = "metal-spoon"
    /\ \E i, j \in DOMAIN audioInstances :
          /\ i < j
          /\ audioInstances[i].cfg = "wooden-spoon"
          /\ audioInstances[j].cfg = "metal-spoon"

\* C12 as stated: no operation of the app, stopMotionDetection included,
\* ends a scheduled voice before its stop time.
C12_NoVoiceCut ==
    \A i \in DOMAIN audioInstances : audioInstances[i].state # "cut"

\* C12: a new hit, a material switch, a tempo change or a start leave every
\* scheduled voice as it is; stopMotionDetection closes the context and cuts
\* exactly the voices of that context whose stop time lies ahead.
C12_OnlyStopCuts ==
    [][IF StopStep
       THEN /\ Len(audioInstances') = Len(audioInstances)
            /\ \A i \in DOMAIN audioInstances :
                   audioInstances'[i].state = "cut" <=>
                      \/ audioInstances[i].state = "cut"
                      \/ /\ audioInstances[i].state = "scheduled"
                         /\ audioInstances[i].contextTime > currentTime
       ELSE /\ Len(audioInstances') >= Len(audioInstances)
            /\ \A i \in DOMAIN audioInstances :
                   audioInstances'[i] = audioInstances[i]]_vars

\* A voice of an earlier hit is still playing, untouched, after a material
\* switch and a new hit.
C12_Witness ==
    \E i, j \in DOMAIN audioInstances :
        /\ i < j
        /\ audioInstances[i].state = "scheduled"
        /\ audioInstances[j].state = "scheduled"
        /\ audioInstances[i].cfg # audioInstances[j].cfg
        /\ audioInstances[i].contextTime > currentTime

\* A step in which a listener handles an event that carries neither
\* acceleration nor accelerationIncludingGravity.
MissingAccelerationStep ==
    \/ DeviceMotion(IdleEvent, FixedDraws, MaxHist)
    \/ event = IdleEvent /\ NextListener(FixedDraws, MaxHist)

\* C13: a motion event without acceleration and accelerationIncludingGravity
\* is skipped: no hit, no exception, and shakeHistory, lastAcceleration,
\* lastMotionTime and lastSoundTime stay as they are.
C13_MissingAccelerationSkipped ==
    [][MissingAccelerationStep =>
          /\ UNCHANGED << shakeHistory, lastAcceleration, lastMotionTime,
                          lastSoundTime, audioInstances, lastHit >>
          /\ ~threw']_vars

\* While listening, with samples already in the history, the first of two
\* listeners has handled an event without acceleration data.
C13_Witness ==
    /\ isListening
    /\ pendingCalls = 1
    /\ event = IdleEvent
    /\ shakeHistory # <<>>
    /\ lastAcceleration # <<0, 0, 0>>

\* C14 as stated: when handleMotion has processed a sample while listening,
\* lastAcceleration is that sample, hit or no hit, audio running or not.
C14_LastAccelerationUpdated ==
    [][\A ev \in GateEvents :
          (isListening /\ Acceleration(ev) # NULL
             /\ DeviceMotion(ev, FixedDraws, MaxHist))
          => lastAcceleration' = Acceleration(ev)]_vars

\* A render made for a motion hit: the step processed a sample.
MotionRenderStep == RenderStep /\ SampleStep

\* C15 as stated: in src/script.js a motion hit is rendered with isFastRhythm
\* true exactly when the previous motion hit was accepted less than 300 ms
\* before it.
C15_FastRhythmFromPreviousHit ==
    [][(MotionRenderStep /\ build = "script") =>
          (lastHit'.isFastRhythm <=> now - lastMotionTime < fastRhythmMs)]_vars

\* The vigor decision of the sample processed in the step.
VigorPositive ==
    detectVigorousShake(shakeHistory', Newest(shakeHistory').intensity, now)

\* C16: lastMotionTime changes only when a sample is vigorous and more than
\* motionCooldown has passed since lastMotionTime, and then becomes now; a
\* vigorous sample inside the cooldown is appended to shakeHistory and leaves
\* lastMotionTime alone, so it does not extend the cooldown.
C16_CooldownNotExtended ==
    [][/\ lastMotionTime' # lastMotionTime =>
             /\ SampleStep
             /\ VigorPositive
             /\ now - lastMotionTime > motionCooldown
             /\ lastMotionTime' = now
       /\ (SampleStep /\ VigorPositive /\ now - lastMotionTime <= motionCooldown) =>
             /\ lastMotionTime' = lastMotionTime
             /\ Newest(shakeHistory').timestamp = now
             /\ Len(shakeHistory') = Len(shakeHistory) + 1]_vars

\* Three vigorous samples 100 ms apart: the first fired, the second was
\* refused inside the cooldown, the third fired 200 ms after the first.
C16_Witness ==
    /\ Len(shakeHistory) = 3
    /\ \A i \in 1..3 :
          /\ shakeHistory[i].timestamp = Epoch + 100 * (i - 1)
          /\ shakeHistory[i].intensity * 10 > motionThreshold * 12
    /\ lastMotionTime = Epoch + 200

\* The entries of hist the claims call recent at time t: intensity above
\* 0.6 x motionThreshold and younger than 200 ms.
RecentIdx(hist, t) ==
    { i \in DOMAIN hist : /\ 10 * hist[i].intensity > 6 * motionThreshold
                          /\ t - hist[i].timestamp < recentWindowMs }

\* A step that processed a sample of at least motionThreshold while the
\* cooldown gate was open: the sample fired iff detectVigorousShake was true.
DecisionStep ==
    /\ SampleStep
    /\ Newest(shakeHistory').intensity >= motionThreshold
    /\ now - lastMotionTime > motionCooldown

Fired == lastMotionTime' = now

\* C17: with exactly one recent entry and a current intensity of at least
\* motionThreshold, the sample fires iff that entry's intensity is strictly
\* above 1.2 x motionThreshold.
C17_SoloRule ==
    [][(DecisionStep /\ Cardinality(RecentIdx(shakeHistory', now)) = 1) =>
          (Fired <=>
             \A i \in RecentIdx(shakeHistory', now) :
                 10 * shakeHistory'[i].intensity > 12 * motionThreshold)]_vars

\* A lone recent entry of intensity 8 (the earlier entry is 200 ms old) did
\* not fire although the gate was open.
C17_Witness ==
    /\ Len(shakeHistory) = 2
    /\ shakeHistory[2] = [intensity |-> motionThreshold, timestamp |-> now]
    /\ now - shakeHistory[1].timestamp = recentWindowMs
    /\ lastMotionTime = 0

RECURSIVE SumAt(_, _)
SumAt(hist, idx) ==
    IF idx = {} THEN 0
    ELSE LET i == CHOOSE k \in idx : TRUE
         IN hist[i].intensity + SumAt(hist, idx \ {i})

\* C18: with two or more recent entries and a current intensity of at least
\* motionThreshold, the sample fires iff the mean intensity of the recent
\* entries is strictly above 0.7 x motionThreshold.
C18_SustainedRule ==
    [][(DecisionStep /\ Cardinality(RecentIdx(shakeHistory', now)) >= 2) =>
          (Fired <=>
             10 * SumAt(shakeHistory', RecentIdx(shakeHistory', now))
                > 7 * motionThreshold * Cardinality(RecentIdx(shakeHistory', now)))]_vars

\* Four samples of 5 and one of 8, all recent: the mean is exactly
\* 5.6 = 0.7 x 8 and the sample of 8 did not fire.
C18_Witness ==
    /\ Len(shakeHistory) = 5
    /\ \A i \in 1..4 : shakeHistory[i].intensity = 5
    /\ shakeHistory[5].intensity = motionThreshold
    /\ shakeHistory[5].timestamp = now
    /\ now - shakeHistory[1].timestamp < recentWindowMs
    /\ lastMotionTime = 0

\* C19 as stated: stopMotionDetection removes the devicemotion handler, so
\* at most one listener is registered at any time and no event is left
\* waiting for a second run of handleMotion.
C19_OneListener ==
    /\ listeners <= 1
    /\ pendingCalls = 0

\* C20 as stated: whenever the motion gate accepts a sample (lastMotionTime
\* becomes now), triggerSound accepts a trigger for that sample
\* (lastSoundTime becomes now), whatever manual triggers came before.
C20_GateHitSounds ==
    [][lastMotionTime' # lastMotionTime => lastSoundTime' = now']_vars

\* C21: for the same intensity class, tempo and draws, the number of bursts,
\* the base burst duration and the tone duration computed for a fast rhythm
\* are never greater than those computed for a slow one.
C21_FastNeverLonger ==
    \A c \in Classes, rs \in SynthDraws :
        LET f == createVariedSpoonPercussion(build, c, TRUE, tempo, rs)
            n == createVariedSpoonPercussion(build, c, FALSE, tempo, rs)
        IN /\ f.numBursts <= n.numBursts
           /\ LoopCount(f.numBursts) <= LoopCount(n.numBursts)
           /\ f.baseDur <= n.baseDur
           /\ ToneDurOf(build, c, TRUE, tempo, rs) <= ToneDurOf(build, c, FALSE, tempo, rs)

\* A fast medium hit was rendered under the sustained pattern, where the
\* fast rhythm takes a burst away for some draw.
C21_Witness ==
    /\ tempo = 8
    /\ lastHit.intensity = "medium"
    /\ lastHit.isFastRhythm
    /\ \E rs \in SynthDraws :
           LoopCount(createVariedSpoonPercussion(build, "medium", TRUE, tempo, rs).numBursts)
             < LoopCount(createVariedSpoonPercussion(build, "medium", FALSE, tempo, rs).numBursts)

\* The voices a step has appended to audioInstances.
NewVoices == SubSeq(audioInstances', Len(audioInstances) + 1, Len(audioInstances'))

\* C22: every voice of a rendered hit starts and stops at the value the
\* audio clock had when playSpoonSound began plus an offset that depends on
\* the burst index, the tempo and the draws only: burst i starts at that
\* value plus its stagger and stops one burst duration later, the tone
\* starts at that value and stops one tone duration later.
C22_SingleClockRead ==
    [][(RenderStep /\ ~EffectsThrow(build, effectsChain)) =>
          \E rs \in UniformDraws :
              LET p == createVariedSpoonPercussion(build, lastHit'.intensity,
                                                   lastHit'.isFastRhythm, tempo, rs)
                  n == LoopCount(p.numBursts)
              IN /\ Len(NewVoices) = n + (IF ToneThrows(build) THEN 0 ELSE 1)
                 /\ \A i \in 1..n :
                        /\ NewVoices[i].source = "noise"
                        /\ NewVoices[i].start
                             = currentTime + BurstStart(build, 0, i - 1, tempo, rs)
                        /\ NewVoices[i].contextTime
                             = NewVoices[i].start + BurstDur(p.baseDur, i - 1, rs)
                 /\ ~ToneThrows(build) =>
                        /\ NewVoices[n + 1].source = "osc"
                        /\ NewVoices[n + 1].start = currentTime
                        /\ NewVoices[n + 1].contextTime
                             = currentTime + ToneDur(lastHit'.intensity,
                                                     lastHit'.isFastRhythm, rs)]_vars

\* A hit has just been rendered after the audio clock had advanced: its
\* tone starts at the clock value and its last burst later than that.
C22_Witness ==
    /\ lastSoundTime = now
    /\ currentTime > 0
    /\ Len(audioInstances) >= 3
    /\ audioInstances[Len(audioInstances)].source = "osc"
    /\ audioInstances[Len(audioInstances)].start = currentTime
    /\ audioInstances[Len(audioInstances) - 1].source = "noise"
    /\ audioInstances[Len(audioInstances) - 1].start > currentTime

C24_BurstsStaggered ==
    [][RenderStep =>
          \A i \in 1..(Len(NewVoices) - 1) :
              (NewVoices[i].source = "noise" /\ NewVoices[i + 1].source = "noise")
                  => NewVoices[i + 1].start > NewVoices[i].start]_vars

\* A manual trigger, and a run of handleMotion, in the renderer's exploration.
ManualStep == \E sp \in BOOLEAN : ManualTrigger(sp, UniformDraws)
MotionStep == \E ev \in MotionEvents : DeviceMotion(ev, UniformDraws, 1)

\* C25: a manual trigger leaves shakeHistory, lastMotionTime and
\* lastAcceleration as they are, and so does every step that is not a run
\* of handleMotion (start, stop, material switch, tempo change, time).
C25_OnlyMotionWritesMotionState ==
    [][/\ ManualStep =>
             UNCHANGED << shakeHistory, lastMotionTime, lastAcceleration >>
       /\ ~MotionStep =>
             UNCHANGED << shakeHistory, lastMotionTime, lastAcceleration >>]_vars

\* A manual trigger has just been accepted some time after a motion hit:
\* the hit's history entry, hit time and acceleration are still there.
C25_Witness ==
    /\ lastSoundTime = now
    /\ shakeHistory # <<>>
    /\ Newest(shakeHistory).timestamp < now
    /\ lastMotionTime = Newest(shakeHistory).timestamp
    /\ lastAcceleration # <<0, 0, 0>>

\* C26: when handleMotion has processed a sample of at least motionThreshold,
\* the recent set detectVigorousShake computes ends with that sample, so it
\* is never empty, and it has exactly one entry (the solo test applies)
\* exactly when no other history entry is recent.
C26_CurrentSampleRecent ==
    [][(SampleStep /\ Newest(shakeHistory').intensity >= motionThreshold) =>
          LET recent == RecentShakes(shakeHistory', now)
          IN /\ Len(recent) >= 1
             /\ recent[Len(recent)] = Newest(shakeHistory')
             /\ Newest(shakeHistory').timestamp = now
             /\ Len(recent) = 1 <=>
                    \A i \in 1..(Len(shakeHistory') - 1) :
                        ~IsRecent(shakeHistory'[i], now)]_vars

\* A sample fired through the solo test although the history holds an
\* earlier entry, which is not recent.
C26_Witness ==
    /\ Len(shakeHistory) >= 2
    /\ Newest(shakeHistory).timestamp = now
    /\ Newest(shakeHistory).intensity >= motionThreshold
    /\ Len(RecentShakes(shakeHistory, now)) = 1
    /\ lastMotionTime = now

\* C27: a sample of at least motionThreshold taken with the gate open and
\* two, three or four recent entries always fires; with two or more recent
\* entries a sample does not fire only when five or more are recent.
C27_SustainedPassesBelowFive ==
    [][/\ (DecisionStep /\ Cardinality(RecentIdx(shakeHistory', now)) \in 2..4)
             => Fired
       /\ (DecisionStep /\ Cardinality(RecentIdx(shakeHistory', now)) >= 2 /\ ~Fired)
             => Cardinality(RecentIdx(shakeHistory', now)) >= 5]_vars

\* Three samples of 5 and one of 8, all recent: the mean is 5.75 and the
\* sample of 8 fired.
C27_Witness ==
    /\ Len(shakeHistory) = 4
    /\ \A i \in 1..3 : shakeHistory[i].intensity = 5
    /\ shakeHistory[4].intensity = motionThreshold
    /\ shakeHistory[4].timestamp = now
    /\ now - shakeHistory[1].timestamp < recentWindowMs
    /\ lastMotionTime = now

\* C28: a hit fired by handleMotion is rendered as light only if the
\* triggering sample's totalDelta is exactly motionThreshold; with a
\* totalDelta above motionThreshold, and whenever the hit fired through the
\* solo test, it is rendered as medium or strong.
C28_LightOnlyAtThreshold ==
    [][MotionRenderStep =>
          /\ lastHit'.intensity = "light"
                 => Newest(shakeHistory').intensity = motionThreshold
          /\ Newest(shakeHistory').intensity > motionThreshold
                 => lastHit'.intensity \in {"medium", "strong"}
          /\ Cardinality(RecentIdx(shakeHistory', now)) = 1
                 => lastHit'.intensity \in {"medium", "strong"}]_vars

\* A sample of exactly motionThreshold fired through the sustained test and
\* was rendered as light.
C28_Witness ==
    /\ lastHit.intensity = "light"
    /\ lastMotionTime = now
    /\ lastSoundTime = now
    /\ Len(shakeHistory) >= 2
    /\ Newest(shakeHistory) = [intensity |-> motionThreshold, timestamp |-> now]

\* A run of handleMotion in the exploration of the history.
HistoryMotionStep == \E ev \in HistoryEvents : DeviceMotion(ev, FixedDraws, MaxHist)

\* C29: once shakeHistory is not empty no operation empties it; its
\* timestamps never decrease along the list; after handleMotion has
\* processed a sample the last entry is that sample; and no step other than
\* a run of handleMotion changes the list.
C29_HistoryKept ==
    [][/\ shakeHistory # <<>> => shakeHistory' # <<>>
       /\ \A i \in 1..(Len(shakeHistory') - 1) :
              shakeHistory'[i].timestamp <= shakeHistory'[i + 1].timestamp
       /\ \A ev \in HistoryEvents :
              (DeviceMotion(ev, FixedDraws, MaxHist) /\ isListening
                 /\ Acceleration(ev) # NULL)
                  => Newest(shakeHistory')
                       = [intensity |-> TotalDelta(Acceleration(ev), lastAcceleration),
                          timestamp |-> now]
       /\ ~HistoryMotionStep => UNCHANGED shakeHistory]_vars

\* The sample of a hit 500 ms ago has been evicted by the latest sample,
\* the two later samples are still listed in order, and detection has been
\* stopped since.
C29_Witness ==
    /\ lastMotionTime = Epoch
    /\ now = Epoch + 500
    /\ ~isListening
    /\ Len(shakeHistory) = 2
    /\ shakeHistory[1].timestamp = Epoch + 250
    /\ shakeHistory[2].timestamp = Epoch + 500

\* A manual trigger in the exploration of silent triggers.
SilentManualStep == \E sp \in BOOLEAN : ManualTrigger(sp, FixedDraws)

\* C30: a trigger whose cooldown check passes sets lastSoundTime to now
\* whatever the state of the audio context, and within soundCooldown of an
\* accepted trigger, silent or not, no trigger is accepted and no voice is
\* scheduled, also when the context is running by then.
C30_SilentTriggerStartsCooldown ==
    [][/\ (SilentManualStep /\ now - lastSoundTime >= soundCooldown)
             => lastSoundTime' = now
       /\ (Fired /\ SampleStep /\ now - lastSoundTime >= soundCooldown)
             => lastSoundTime' = now
       /\ (now - lastSoundTime < soundCooldown /\ ~StopStep)
             => /\ lastSoundTime' = lastSoundTime
                /\ audioInstances' = audioInstances
                /\ lastHit' = lastHit]_vars

\* A trigger was accepted without a running context; 50 ms later the
\* context runs and a motion hit has passed the gate, but no voice has been
\* scheduled and lastSoundTime is still the time of the silent trigger.
C30_Witness ==
    /\ audioContext = "running"
    /\ lastMotionTime = now
    /\ lastSoundTime >= Epoch
    /\ now - lastSoundTime = 50
    /\ audioInstances = <<>>
    /\ lastHit = NoHit

====
